---- MODULE Spec2Model ----
(***************************************************************************)
(* The response cache of the interview co-pilot: the server's LRUCache     *)
(* class, the derivation of cache keys from questions, and the             *)
(* POST /api/ai/answer handlers that consult the cache.                    *)
(***************************************************************************)
EXTENDS Integers, Sequences, FiniteSets, TLC

(***************************************************************************)
(* Bounds of the model.                                                    *)
(***************************************************************************)
\* largest maxSize handed to the LRUCache constructor
MaxCap == 2
\* number of get calls explored on one LRUCache
MaxGets == 3
\* longest question handed to the key derivation
MaxLen == 3
\* number of deltas the generator streams for one answer
MaxDeltas == 2
\* the most getCached and setCached calls of a run of the browser's cache
MaxCalls == 3
\* the most add calls of a run of the browser's queue
MaxAdds == 3

(***************************************************************************)
(* JavaScript values.  A value is a record so that strings, objects, null  *)
(* and undefined can be compared:  text is the string itself, or the       *)
(* answer property of an object, as a sequence of characters; cost and ms  *)
(* are the cost and processingTimeMs properties of an object.              *)
(***************************************************************************)
Undefined == [kind |-> "undefined", text |-> << >>, cost |-> 0, ms |-> 0]
Null == [kind |-> "null", text |-> << >>, cost |-> 0, ms |-> 0]
Str(s) == [kind |-> "string", text |-> s, cost |-> 0, ms |-> 0]
Obj(answer, cost, ms) == [kind |-> "object", text |-> answer, cost |-> cost, ms |-> ms]

\* what `if (v)` tests
Truthy(v) ==
    CASE v.kind = "undefined" -> FALSE
      [] v.kind = "null" -> FALSE
      [] v.kind = "string" -> v.text # << >>
      [] OTHER -> TRUE

\* v.answer
AnswerOf(v) == IF v.kind = "object" THEN Str(v.text) ELSE Undefined

(***************************************************************************)
(* A JavaScript Map: the sequence of its [key, value] pairs in iteration   *)
(* (insertion) order.                                                      *)
(***************************************************************************)
MapHas(m, k) == \E i \in 1..Len(m) : m[i].key = k
MapIndex(m, k) == CHOOSE i \in 1..Len(m) : m[i].key = k
MapGet(m, k) == IF MapHas(m, k) THEN m[MapIndex(m, k)].value ELSE Undefined
MapDelete(m, k) == SelectSeq(m, LAMBDA e : e.key # k)
\* Map.prototype.set keeps the position of a key that is already there
MapSet(m, k, v) ==
    IF MapHas(m, k)
    THEN [i \in 1..Len(m) |-> IF m[i].key = k THEN [key |-> k, value |-> v] ELSE m[i]]
    ELSE Append(m, [key |-> k, value |-> v])
\* this.cache.keys().next().value
MapFirstKey(m) == m[1].key

(***************************************************************************)
(* class LRUCache.  An instance is [maxSize, cache, hits, misses].         *)
(***************************************************************************)
LRUCache(maxSize) == [maxSize |-> maxSize, cache |-> << >>, hits |-> 0, misses |-> 0]

\* a get that reads the entry without refreshing its position
LRUCache_get_NoRefresh(c, key) ==
    LET item == MapGet(c.cache, key) IN
    IF Truthy(item)
    THEN [obj |-> [c EXCEPT !.hits = c.hits + 1], result |-> item]
    ELSE [obj |-> [c EXCEPT !.misses = c.misses + 1], result |-> Null]

\* a get that forgets to count a miss
LRUCache_get_NoMissCount(c, key) ==
    LET item == MapGet(c.cache, key) IN
    IF Truthy(item)
    THEN [obj |-> [c EXCEPT !.cache = MapSet(MapDelete(c.cache, key), key, item),
                            !.hits = c.hits + 1],
          result |-> item]
    ELSE [obj |-> c, result |-> Null]

\* get(key): the instance after the call and the value returned
LRUCache_get(c, key) ==
    LET item == MapGet(c.cache, key) IN
    IF Truthy(item)
    THEN [obj |-> [c EXCEPT !.cache = MapSet(MapDelete(c.cache, key), key, item),
                            !.hits = c.hits + 1],
          result |-> item]
    ELSE [obj |-> [c EXCEPT !.misses = c.misses + 1], result |-> Null]

\* a set whose capacity test is > instead of >=
LRUCache_set_OffByOne(c, key, value) ==
    LET m1 == IF MapHas(c.cache, key) THEN MapDelete(c.cache, key)
              ELSE IF Len(c.cache) > c.maxSize
                   THEN MapDelete(c.cache, MapFirstKey(c.cache))
                   ELSE c.cache
    IN  [c EXCEPT !.cache = MapSet(m1, key, value)]

\* a set that tests the capacity before it looks for the key
LRUCache_set_EvictFirst(c, key, value) ==
    LET m1 == IF Len(c.cache) >= c.maxSize
              THEN MapDelete(c.cache, MapFirstKey(c.cache))
              ELSE c.cache
        m2 == IF MapHas(m1, key) THEN MapDelete(m1, key) ELSE m1
    IN  [c EXCEPT !.cache = MapSet(m2, key, value)]

\* a set that keeps the value a key already has
LRUCache_set_KeepFirst(c, key, value) ==
    IF MapHas(c.cache, key)
    THEN [c EXCEPT !.cache = MapSet(MapDelete(c.cache, key), key, MapGet(c.cache, key))]
    ELSE LET m1 == IF Len(c.cache) >= c.maxSize
                   THEN MapDelete(c.cache, MapFirstKey(c.cache))
                   ELSE c.cache
         IN  [c EXCEPT !.cache = MapSet(m1, key, value)]

\* set(key, value): the instance after the call
LRUCache_set(c, key, value) ==
    LET m1 == IF MapHas(c.cache, key) THEN MapDelete(c.cache, key)
              ELSE IF Len(c.cache) >= c.maxSize
                   THEN MapDelete(c.cache, MapFirstKey(c.cache))
                   ELSE c.cache
    IN  [c EXCEPT !.cache = MapSet(m1, key, value)]

\* (hits / total * 100).toFixed(1), in tenths of a percent
HitRateTenths(hits, total) == (2 * 1000 * hits + total) \div (2 * total)

\* getStats()
LRUCache_getStats(c) ==
    LET total == c.hits + c.misses IN
    [size |-> Len(c.cache), hits |-> c.hits, misses |-> c.misses,
     hitRate |-> IF total > 0 THEN HitRateTenths(c.hits, total) ELSE 0]

(***************************************************************************)
(* Strings are sequences of characters.  The alphabet has a lower-case     *)
(* letter, an upper-case letter, a digit, a punctuation mark and a space.  *)
(***************************************************************************)
Alphabet == {"a", "A", "1", ":", " "}
\* \s
IsSpace(ch) == ch = " "
\* \w
IsWord(ch) == ch \in {"a", "A", "1"}
\* [.,?!;:'"-]
IsListedPunct(ch) == ch = ":"
LowerChar(ch) == IF ch = "A" THEN "a" ELSE ch

toLowerCase(s) == [i \in 1..Len(s) |-> LowerChar(s[i])]

RECURSIVE TrimStart(_)
TrimStart(s) == IF s # << >> /\ IsSpace(Head(s)) THEN TrimStart(Tail(s)) ELSE s
RECURSIVE TrimEnd(_)
TrimEnd(s) ==
    IF s # << >> /\ IsSpace(s[Len(s)]) THEN TrimEnd(SubSeq(s, 1, Len(s) - 1)) ELSE s
trim(s) == TrimEnd(TrimStart(s))

\* replace(/[^\w\s]/g, ' ')
ReplaceNonWord(s) ==
    [i \in 1..Len(s) |-> IF IsWord(s[i]) \/ IsSpace(s[i]) THEN s[i] ELSE " "]
\* replace(/[.,?!;:'"-]/g, ' ')
ReplaceListedPunct(s) == [i \in 1..Len(s) |-> IF IsListedPunct(s[i]) THEN " " ELSE s[i]]
\* replace(/\s+/g, ' ')
RECURSIVE CollapseSpaces(_)
CollapseSpaces(s) ==
    IF s = << >> THEN << >>
    ELSE IF IsSpace(Head(s))
         THEN <<" ">> \o CollapseSpaces(TrimStart(s))
         ELSE <<Head(s)>> \o CollapseSpaces(Tail(s))
\* slice(0, n)
SliceTo(s, n) == SubSeq(s, 1, IF Len(s) < n THEN Len(s) ELSE n)

\* the length normalizeQuestion cuts a key to
KeyLimit == 200

\* a normalizeQuestion that leaves the punctuation in place
normalizeQuestion_KeepPunct(q) == SliceTo(CollapseSpaces(trim(toLowerCase(q))), KeyLimit)

\* normalizeQuestion of the job-profile server and of the optimized server
normalizeQuestion(q) ==
    SliceTo(CollapseSpaces(ReplaceNonWord(trim(toLowerCase(q)))), KeyLimit)

\* normalizeQuestion of the lru-cache server
normalizeQuestion_ix(q) == trim(CollapseSpaces(ReplaceListedPunct(toLowerCase(q))))

\* String(n) for a row id n >= 1
RECURSIVE ToDecimal(_)
ToDecimal(n) ==
    LET d == <<"0", "1", "2", "3", "4", "5", "6", "7", "8", "9">>[(n % 10) + 1] IN
    IF n < 10 THEN <<d>> ELSE ToDecimal(n \div 10) \o <<d>>

\* session?.jobProfileId ? `${session.jobProfileId}:${normalizedQ}` : normalizedQ
\* (jobProfileId 0 stands for a session without a job profile, or no session)
cacheKey(jobProfileId, normalizedQ) ==
    IF jobProfileId # 0 THEN ToDecimal(jobProfileId) \o <<":">> \o normalizedQ
    ELSE normalizedQ

\* compare two strings as Array.prototype.sort does, by code unit
CodeOf(ch) == CASE ch = " " -> 32 [] ch = "1" -> 49 [] ch = ":" -> 58
                [] ch = "A" -> 65 [] ch = "a" -> 97 [] OTHER -> 120
RECURSIVE StrLess(_, _)
StrLess(s, t) ==
    IF t = << >> THEN FALSE
    ELSE IF s = << >> THEN TRUE
    ELSE IF CodeOf(Head(s)) # CodeOf(Head(t)) THEN CodeOf(Head(s)) < CodeOf(Head(t))
    ELSE StrLess(Tail(s), Tail(t))
RECURSIVE InsertSorted(_, _)
InsertSorted(ws, w) ==
    IF ws = << >> THEN <<w>>
    ELSE IF StrLess(w, Head(ws)) THEN <<w>> \o ws
    ELSE <<Head(ws)>> \o InsertSorted(Tail(ws), w)
RECURSIVE SortWords(_)
SortWords(ws) == IF ws = << >> THEN << >> ELSE InsertSorted(SortWords(Tail(ws)), Head(ws))

\* s.split(' '): the pieces between single spaces, empty pieces included
RECURSIVE SplitAcc(_, _, _)
SplitAcc(s, piece, acc) ==
    IF s = << >> THEN Append(acc, piece)
    ELSE IF Head(s) = " " THEN SplitAcc(Tail(s), << >>, Append(acc, piece))
    ELSE SplitAcc(Tail(s), Append(piece, Head(s)), acc)
SplitOnSpace(s) == SplitAcc(s, << >>, << >>)
\* ws.join(' ')
RECURSIVE JoinWithSpace(_)
JoinWithSpace(ws) ==
    IF ws = << >> THEN << >>
    ELSE IF Len(ws) = 1 THEN ws[1]
    ELSE ws[1] \o <<" ">> \o JoinWithSpace(Tail(ws))

\* createHash('md5').update(s).digest('hex'), taken to be free of collisions
md5(s) == <<"m", "d", "5">> \o s

\* generateSemanticKey of the streaming server.  Of the stop words only "a" can be
\* written in the alphabet.
generateSemanticKey(text) ==
    LET lowered == toLowerCase(text)
        noPunct == SelectSeq(lowered, LAMBDA ch : ~IsListedPunct(ch))
        \* a stop word between word boundaries is cut out; the spaces around it stay
        pieces == SplitOnSpace(noPunct)
        noStop == JoinWithSpace([i \in 1..Len(pieces) |->
                                    IF pieces[i] = <<"a">> THEN << >> ELSE pieces[i]])
        trimmed == trim(noStop)
        \* split(/\s+/) of a trimmed string: its words, or one empty string
        words == IF trimmed = << >> THEN << << >> >>
                 ELSE SelectSeq(SplitOnSpace(trimmed), LAMBDA w : w # << >>)
    IN  md5(JoinWithSpace(SortWords(words)))

(***************************************************************************)
(* new LRUCache({ max, ttl }) of the lru-cache package: entries go stale   *)
(* when their ttl has passed; get drops a stale entry and reports nothing. *)
(***************************************************************************)
TtlCache(max) == [maxSize |-> max, cache |-> << >>, hits |-> 0, misses |-> 0]
TtlCache_get(c, key) ==
    IF ~MapHas(c.cache, key) THEN [obj |-> c, result |-> Undefined]
    ELSE LET e == c.cache[MapIndex(c.cache, key)] IN
         IF e.stale
         THEN [obj |-> [c EXCEPT !.cache = MapDelete(c.cache, key)], result |-> Undefined]
         ELSE [obj |-> [c EXCEPT !.cache = Append(MapDelete(c.cache, key), e)],
               result |-> e.value]
TtlCache_set(c, key, value) ==
    LET m1 == IF MapHas(c.cache, key) THEN MapDelete(c.cache, key)
              ELSE IF Len(c.cache) >= c.maxSize THEN Tail(c.cache)
              ELSE c.cache
    IN  [c EXCEPT !.cache = Append(m1, [key |-> key, value |-> value, stale |-> FALSE])]

\* estimateCost for gpt-4o-mini, in units of 10^-8 dollars
estimateCost(tokensIn, tokensOut) == 15 * tokensIn + 60 * tokensOut

(***************************************************************************)
(* useSmartCache, the tiered cache of the browser, in its two variants:    *)
(*   "similarity"  memory Map keyed by quickHash with an access list, one  *)
(*                 localStorage item per question, Jaccard matching;       *)
(*   "map"         memory Map, and a Map in React state that an effect     *)
(*                 saves under one localStorage key.                       *)
(* The hook is a record h; every operation gives the hook after the call.  *)
(* Times are in days.                                                      *)
(***************************************************************************)
\* quickHash(str): the 32-bit hash, as its halves <<high 16 bits, low 16 bits>>
RECURSIVE quickHashFrom(_, _)
quickHashFrom(hash, str) ==
    IF str = << >> THEN hash
    ELSE LET lo == 31 * hash[2] + CodeOf(Head(str))
             hi == 31 * hash[1] + (lo \div 65536)
         IN  quickHashFrom(<<hi % 65536, lo % 65536>>, Tail(str))
quickHash(str) == quickHashFrom(<<0, 0>>, str)
\* the hash 0, the one `if (lru)` takes for no hash
ZeroHash == <<0, 0>>

\* str.toLowerCase().split(/\W+/).filter(w => w.length > 2), as a set
RECURSIVE WordsFrom(_, _)
WordsFrom(word, str) ==
    LET done == IF Len(word) > 2 THEN {word} ELSE {} IN
    IF str = << >> THEN done
    ELSE IF IsWord(Head(str)) THEN WordsFrom(Append(word, Head(str)), Tail(str))
    ELSE done \cup WordsFrom(<< >>, Tail(str))
WordSet(str) == WordsFrom(<< >>, toLowerCase(str))

\* the share of the words of str1 that str2 has
jaccardSimilarity_OfFirst(str1, str2) ==
    LET set1 == WordSet(str1)
        set2 == WordSet(str2)
    IN  IF set1 \cup set2 = {} THEN [num |-> 0, den |-> 1]
        ELSE IF set1 = {} THEN [num |-> 0, den |-> Cardinality(set2)]
        ELSE [num |-> Cardinality(set1 \cap set2), den |-> Cardinality(set1)]
\* jaccardSimilarity(str1, str2), as the fraction num / den
jaccardSimilarity(str1, str2) ==
    LET set1 == WordSet(str1)
        set2 == WordSet(str2)
        intersection == set1 \cap set2
        union == set1 \cup set2
    IN  IF union = {} THEN [num |-> 0, den |-> 1]
        ELSE [num |-> Cardinality(intersection), den |-> Cardinality(union)]
\* x > p / q
Exceeds(x, p, q) == x.num * q > p * x.den
\* SIMILARITY_THRESHOLD = 0.75, and the 0.9 of the lookup by hash
SIMILARITY_THRESHOLD == <<3, 4>>
HashMatchThreshold == <<9, 10>>
Similar(a, b, t) == Exceeds(jaccardSimilarity(a, b), t[1], t[2])

\* the object a tier stores for a question, and a localStorage item that
\* JSON.parse or the reading of its timestamp throws on
CacheData(answer, timestamp) == [kind |-> "data", answer |-> answer, timestamp |-> timestamp]
CorruptItem == [kind |-> "corrupt", answer |-> << >>, timestamp |-> 0]
\* 30 * 24 * 60 * 60 * 1000 ms
MaxAgeDays == 30
Fresh(h, data) == h.now - data.timestamp < MaxAgeDays
\* normalizedQ.slice(0, 120)
StorageKeyLen == 120

\* what a call returned, which tier served it and whether it read the storage
Returned(data, source, readStorage) ==
    [found |-> TRUE, answer |-> data.answer, timestamp |-> data.timestamp,
     source |-> source, readStorage |-> readStorage]
ReturnedNull(readStorage) ==
    [found |-> FALSE, answer |-> << >>, timestamp |-> 0,
     source |-> "none", readStorage |-> readStorage]

\* accessOrder.filter(h => h !== hash), then push(hash)
RefreshOrder(order, hash) == Append(SelectSeq(order, LAMBDA x : x # hash), hash)

\* promoteToMemory(hash, question, data)
promoteToMemory(h, hash, question, data) ==
    LET full == Len(h.memoryCache) >= h.memoryLimit
        lru == IF h.accessOrder # << >> THEN Head(h.accessOrder) ELSE ZeroHash
        order1 == IF full /\ h.accessOrder # << >> THEN Tail(h.accessOrder)
                  ELSE h.accessOrder
        mem1 == IF full /\ lru # ZeroHash THEN MapDelete(h.memoryCache, lru)
                ELSE h.memoryCache
    IN  [h EXCEPT !.memoryCache = MapSet(mem1, hash, [question |-> question, data |-> data]),
                  !.accessOrder = Append(order1, hash)]

\* what the hook remembers of its last call: answer is the answer handed to
\* setCached, threw an exception that left the call, failed an exception of
\* localStorage or JSON.parse that the call caught
HookCall(op, question, ret, threw) ==
    [op |-> op, question |-> question, answer |-> << >>, ret |-> ret, threw |-> threw,
     failed |-> FALSE]

\* the entry of the memory tier whose question is the most similar to
\* normalizedQ among the similar ones, the first of them when several are
FirstSimilar_Closest(m, normalizedQ) ==
    LET hits == {i \in 1..Len(m) :
                    Similar(m[i].value.question, normalizedQ, SIMILARITY_THRESHOLD)}
        sim(i) == jaccardSimilarity(m[i].value.question, normalizedQ)
        best == {i \in hits : \A j \in hits : sim(i).num * sim(j).den >= sim(j).num * sim(i).den}
    IN  IF hits = {} THEN 0 ELSE CHOOSE i \in best : \A j \in best : i <= j

\* the first entry of the memory tier, in iteration order, whose question is
\* similar to normalizedQ (0 when there is none)
FirstSimilar(m, normalizedQ) ==
    LET hits == {i \in 1..Len(m) :
                    Similar(m[i].value.question, normalizedQ, SIMILARITY_THRESHOLD)}
    IN  IF hits = {} THEN 0 ELSE CHOOSE i \in hits : \A j \in hits : i <= j

\* the loop over Object.keys(localStorage), from item i on: it returns the first
\* similar item that is fresh, or throws on a similar item it cannot read
RECURSIVE ScanStorage(_, _, _)
ScanStorage(h, normalizedQ, i) ==
    IF i > Len(h.localStorage) THEN [outcome |-> "none", data |-> CorruptItem]
    ELSE LET item == h.localStorage[i] IN
         IF ~Similar(item.key, normalizedQ, SIMILARITY_THRESHOLD)
         THEN ScanStorage(h, normalizedQ, i + 1)
         ELSE IF item.value.kind = "corrupt"
         THEN [outcome |-> "threw", data |-> CorruptItem]
         ELSE IF Fresh(h, item.value)
         THEN [outcome |-> "hit", data |-> item.value]
         ELSE ScanStorage(h, normalizedQ, i + 1)

\* a getCached that does not promote what it finds in the storage
getCached_NoPromote(h, question, fault) ==
    LET normalizedQ == trim(toLowerCase(question))
        qHash == quickHash(normalizedQ)
        mem == h.memoryCache
        similar == FirstSimilar(mem, normalizedQ)
        scan == IF fault THEN [outcome |-> "threw", data |-> CorruptItem]
                ELSE ScanStorage(h, normalizedQ, 1)
    IN  IF MapHas(mem, qHash)
           /\ Similar(MapGet(mem, qHash).question, normalizedQ, HashMatchThreshold)
        THEN [h EXCEPT !.accessOrder = RefreshOrder(@, qHash),
                       !.last = HookCall("getCached", question,
                                    Returned(MapGet(mem, qHash).data, "memory", FALSE), FALSE)]
        ELSE IF similar # 0
        THEN [h EXCEPT !.accessOrder = RefreshOrder(@, mem[similar].key),
                       !.last = HookCall("getCached", question,
                                    Returned(mem[similar].value.data, "memory_similar", FALSE),
                                    FALSE)]
        ELSE IF scan.outcome = "hit"
        THEN [h EXCEPT !.last = HookCall("getCached", question,
                                    Returned(scan.data, "storage", TRUE), FALSE)]
        ELSE [h EXCEPT !.last = [HookCall("getCached", question, ReturnedNull(TRUE), FALSE)
                                    EXCEPT !.failed = (scan.outcome = "threw")]]

\* a getCached whose storage scan is not inside a try
getCached_NoTry(h, question, fault) ==
    LET normalizedQ == trim(toLowerCase(question))
        qHash == quickHash(normalizedQ)
        mem == h.memoryCache
        similar == FirstSimilar(mem, normalizedQ)
        scan == IF fault THEN [outcome |-> "threw", data |-> CorruptItem]
                ELSE ScanStorage(h, normalizedQ, 1)
    IN  IF MapHas(mem, qHash)
           /\ Similar(MapGet(mem, qHash).question, normalizedQ, HashMatchThreshold)
        THEN [h EXCEPT !.accessOrder = RefreshOrder(@, qHash),
                       !.last = HookCall("getCached", question,
                                    Returned(MapGet(mem, qHash).data, "memory", FALSE), FALSE)]
        ELSE IF similar # 0
        THEN [h EXCEPT !.accessOrder = RefreshOrder(@, mem[similar].key),
                       !.last = HookCall("getCached", question,
                                    Returned(mem[similar].value.data, "memory_similar", FALSE),
                                    FALSE)]
        ELSE IF scan.outcome = "hit"
        THEN [promoteToMemory(h, qHash, normalizedQ, scan.data)
                EXCEPT !.last = HookCall("getCached", question,
                                    Returned(scan.data, "storage", TRUE), FALSE)]
        ELSE [h EXCEPT !.last = [HookCall("getCached", question, ReturnedNull(TRUE),
                                          scan.outcome = "threw")
                                    EXCEPT !.failed = (scan.outcome = "threw")]]

\* getCached(question) of the similarity variant; fault: localStorage cannot be
\* accessed
getCached(h, question, fault) ==
    LET normalizedQ == trim(toLowerCase(question))
        qHash == quickHash(normalizedQ)
        mem == h.memoryCache
        similar == FirstSimilar(mem, normalizedQ)
        \* the try around the scan: an exception ends it as a miss
        scan == IF fault THEN [outcome |-> "threw", data |-> CorruptItem]
                ELSE ScanStorage(h, normalizedQ, 1)
    IN  IF MapHas(mem, qHash)
           /\ Similar(MapGet(mem, qHash).question, normalizedQ, HashMatchThreshold)
        THEN [h EXCEPT !.accessOrder = RefreshOrder(@, qHash),
                       !.last = HookCall("getCached", question,
                                    Returned(MapGet(mem, qHash).data, "memory", FALSE), FALSE)]
        ELSE IF similar # 0
        THEN [h EXCEPT !.accessOrder = RefreshOrder(@, mem[similar].key),
                       !.last = HookCall("getCached", question,
                                    Returned(mem[similar].value.data, "memory_similar", FALSE),
                                    FALSE)]
        ELSE IF scan.outcome = "hit"
        THEN [promoteToMemory(h, qHash, normalizedQ, scan.data)
                EXCEPT !.last = HookCall("getCached", question,
                                    Returned(scan.data, "storage", TRUE), FALSE)]
        ELSE [h EXCEPT !.last = [HookCall("getCached", question, ReturnedNull(TRUE), FALSE)
                                    EXCEPT !.failed = (scan.outcome = "threw")]]

\* setCached(question, answer) of the similarity variant, up to its setTimeout
setCached(h, question, answer) ==
    LET normalizedQ == trim(toLowerCase(question))
        qHash == quickHash(normalizedQ)
        data == CacheData(answer, h.now)
        h1 == promoteToMemory(h, qHash, normalizedQ, data)
    IN  [h1 EXCEPT !.timers = Append(@, [key |-> SliceTo(normalizedQ, StorageKeyLen),
                                         data |-> data]),
                   !.last = [HookCall("setCached", question, ReturnedNull(FALSE), FALSE)
                               EXCEPT !.answer = answer]]

\* .sort((a, b) => a.ts - b.ts): oldest first, equal timestamps in their order
InsertByTs(sorted, e) ==
    LET k == Cardinality({i \in 1..Len(sorted) :
                            sorted[i].value.timestamp <= e.value.timestamp})
    IN  SubSeq(sorted, 1, k) \o <<e>> \o SubSeq(sorted, k + 1, Len(sorted))
RECURSIVE SortByTs(_)
SortByTs(items) ==
    IF items = << >> THEN << >>
    ELSE InsertByTs(SortByTs(SubSeq(items, 1, Len(items) - 1)), items[Len(items)])

\* the orders in which Object.keys(localStorage) can list n items: the order of
\* the keys of a Storage object is left to the browser
KeyOrders(n) == {f \in [1..n -> 1..n] : \A i, j \in 1..n : f[i] = f[j] => i = j}

\* the cleanup of the storage write: over the limit, the oldest items go; an item
\* that JSON.parse throws on ends the cleanup in the catch
StorageCleanup(items, limit, order) ==
    IF Len(items) <= limit THEN items
    ELSE IF \E i \in 1..Len(items) : items[i].value.kind = "corrupt" THEN items
    ELSE LET allKeys == [i \in 1..Len(items) |-> items[order[i]]]
             sorted == SortByTs(allKeys)
             toRemove == {sorted[i].key : i \in 1..(Len(items) - limit)}
         IN  SelectSeq(items, LAMBDA e : e.key \notin toRemove)

\* the setTimeout callback of setCached; fault: setItem throws (storage full or
\* private)
StorageWrite(h, fault, order) ==
    LET t == Head(h.timers) IN
    IF fault THEN [h EXCEPT !.timers = Tail(@), !.saved = FALSE]
    ELSE [h EXCEPT !.timers = Tail(@), !.saved = TRUE,
                   !.localStorage = StorageCleanup(MapSet(@, t.key, t.data),
                                                   h.storageLimit, order)]

\* normalize(key) of the Map variant
normalize(key) == trim(CollapseSpaces(toLowerCase(key)))

\* getCached(key) of the Map variant
getCached_map(h, key) ==
    LET normalizedKey == normalize(key) IN
    IF MapHas(h.memoryCache, normalizedKey)
    THEN [h EXCEPT !.last = HookCall("getCached", key,
                        Returned(MapGet(h.memoryCache, normalizedKey), "memory", FALSE), FALSE)]
    ELSE IF MapHas(h.storageCache, normalizedKey)
    THEN LET value == MapGet(h.storageCache, normalizedKey) IN
         [h EXCEPT !.memoryCache = MapSet(@, normalizedKey, value),
                   !.last = HookCall("getCached", key, Returned(value, "storage", TRUE), FALSE)]
    ELSE [h EXCEPT !.last = HookCall("getCached", key, ReturnedNull(TRUE), FALSE)]

\* setCached(key, value) of the Map variant, up to its state update
setCached_map(h, key, value) ==
    LET normalizedKey == normalize(key)
        cacheItem == CacheData(value, h.now)
        mem1 == MapSet(h.memoryCache, normalizedKey, cacheItem)
        mem2 == IF Len(mem1) > h.memoryLimit THEN MapDelete(mem1, MapFirstKey(mem1))
                ELSE mem1
    IN  [h EXCEPT !.memoryCache = mem2,
                  !.pending = Append(@, [key |-> normalizedKey, value |-> cacheItem]),
                  !.last = [HookCall("setCached", key, ReturnedNull(FALSE), FALSE)
                              EXCEPT !.answer = value]]

\* the updaters of setStorageCache, applied in order to the previous Map
RECURSIVE ApplyUpdates(_, _)
ApplyUpdates(prev, updates) ==
    IF updates = << >> THEN prev
    ELSE ApplyUpdates(MapSet(prev, Head(updates).key, Head(updates).value), Tail(updates))

\* the item under STORAGE_KEY: none, one that does not parse to a Map, or a Map
StoredMap(entries) == [kind |-> "map", entries |-> entries]
NoItem == [kind |-> "none", entries |-> << >>]

\* a render of the Map variant: the queued updates reach storageCache and the
\* effect saves it; fault: setItem throws
RenderHook(h, fault) ==
    LET newCache == ApplyUpdates(h.storageCache, h.pending) IN
    [h EXCEPT !.storageCache = newCache, !.pending = << >>, !.saved = ~fault,
              !.storageItem = IF fault THEN @ ELSE StoredMap(newCache)]

\* the hook is mounted on a page load: the refs are new, the timers and state
\* updates of the old page are gone; the Map variant reads its item in a try and
\* its effect saves what it read; fault: localStorage throws
MountHook(h, fault) ==
    LET loaded == IF ~fault /\ h.storageItem.kind = "map" THEN h.storageItem.entries
                  ELSE << >>
    IN  [h EXCEPT !.memoryCache = << >>, !.accessOrder = << >>, !.timers = << >>,
                  !.pending = << >>,
                  !.storageCache = IF h.variant = "map" THEN loaded ELSE << >>,
                  !.storageItem = IF h.variant = "map" /\ ~fault THEN StoredMap(loaded)
                                  ELSE @,
                  !.saved = (h.variant = "map" /\ ~fault),
                  \* found: the state was read from a stored Map
                  !.last = [HookCall("mount", << >>, ReturnedNull(h.variant = "map"), FALSE)
                              EXCEPT !.ret.found = /\ h.variant = "map" /\ ~fault
                                                   /\ h.storageItem.kind = "map",
                                     !.failed = /\ h.variant = "map"
                                                /\ (fault \/ h.storageItem.kind = "corrupt")]]

(***************************************************************************)
(* useParallelQueue, the queue of the browser in its variant with refs.    *)
(* The hook is a record q; every operation gives the hook after the call.  *)
(* debounceTimers is held in the order in which the timers were set, which *)
(* is the order in which timers of one delay fire.                         *)
(***************************************************************************)
\* str.toLowerCase().replace(/[^\w\s]/g, ' ').trim().replace(/\s+/g, ' ')
queueNormalize(str) == CollapseSpaces(trim(ReplaceNonWord(toLowerCase(str))))

\* s.includes(w)
Includes(s, w) ==
    \E i \in 0..(Len(s) - Len(w)) : SubSeq(s, i + 1, i + Len(w)) = w

\* common / total > 0.8 of the dedup
DedupSimilar(key, normalized) ==
    LET keyWords == SplitOnSpace(key)
        words == SplitOnSpace(normalized)
        common == Cardinality({i \in 1..Len(keyWords) : Includes(normalized, keyWords[i])})
        total == Cardinality({keyWords[i] : i \in 1..Len(keyWords)}
                                \cup {words[i] : i \in 1..Len(words)})
    IN  10 * common > 8 * total
\* something similar was processed in the last 5000 ms
Deduped(q, normalized) ==
    \E i \in 1..Len(q.lastProcessed) :
        /\ q.now - q.lastProcessed[i].value < 1
        /\ DedupSimilar(q.lastProcessed[i].key, normalized)
\* lastProcessed.current.size > 20
LastProcessedLimit == 20

\* a processQueue that takes the newest item of the queue
processQueue_Lifo(q) ==
    IF Cardinality(q.processing) >= q.maxConcurrent \/ q.queue = << >> THEN q
    ELSE [q EXCEPT !.queue = SubSeq(@, 1, Len(@) - 1),
                   !.processing = @ \cup {q.nextId},
                   !.inFlight = @ \cup {q.nextId},
                   !.started = Append(@, q.queue[Len(q.queue)]),
                   !.nextId = @ + 1]

\* processQueue(), up to its await: it starts at most one task
processQueue(q) ==
    IF Cardinality(q.processing) >= q.maxConcurrent \/ q.queue = << >> THEN q
    ELSE [q EXCEPT !.queue = Tail(@),
                   !.processing = @ \cup {q.nextId},
                   !.inFlight = @ \cup {q.nextId},
                   !.started = Append(@, Head(q.queue)),
                   !.nextId = @ + 1]

\* processQueue() from its await on: processFn has settled, fulfilled or not
settle(q, id, fulfilled) ==
    LET q1 == [q EXCEPT !.stats.processed = IF fulfilled THEN @ + 1 ELSE @,
                        !.stats.errors = IF fulfilled THEN @ ELSE @ + 1,
                        !.processing = @ \ {id},
                        !.inFlight = @ \ {id}]
    IN  IF q1.queue # << >> THEN [q1 EXCEPT !.timers = @ + 1] ELSE q1

\* add(data), up to its setTimeout
add(q, data) ==
    LET normalized == queueNormalize(data) IN
    [q EXCEPT !.debounceTimers = Append(MapDelete(@, normalized),
                                        [key |-> normalized, value |-> data]),
              !.adds = @ + 1]

\* the callback of the oldest debounce timer
debounceFire(q) ==
    LET normalized == Head(q.debounceTimers).key
        data == Head(q.debounceTimers).value
        q1 == [q EXCEPT !.debounceTimers = Tail(@)]
        last1 == MapSet(q1.lastProcessed, normalized, q1.now)
        last2 == IF Len(last1) > LastProcessedLimit
                 THEN MapDelete(last1, MapFirstKey(last1)) ELSE last1
        item == [data |-> data, seq |-> Len(q1.pushed) + 1]
    IN  IF Deduped(q1, normalized) THEN [q1 EXCEPT !.stats.deduped = @ + 1]
        ELSE processQueue([q1 EXCEPT !.lastProcessed = last2,
                                     !.queue = Append(@, item),
                                     !.pushed = Append(@, item)])

\* clear()
clear(q) ==
    [q EXCEPT !.queue = << >>, !.processing = {}, !.debounceTimers = << >>,
              !.lastProcessed = << >>, !.cleared = TRUE]

(***************************************************************************)
(* State.                                                                  *)
(***************************************************************************)
VARIABLES
    responseCache,  \* the LRUCache instance
    ret,            \* the last call on it and what it returned
    gets,           \* number of get calls made so far
    recency,        \* keys by their last get-hit or set, oldest first
    scn,            \* progress through set A, set B, set C, get B, set D
    derive,         \* two questions on their way to their cache keys
    rev,            \* which revision of the server is running
    alive,          \* the server process has not died of an uncaught error
    reqs,           \* the answer requests: inputs, position in the handler, response
    hook,           \* the useSmartCache hook of the browser: tiers, timers, clock
    match,          \* two questions to store, one to look up, and their similarity
    pq              \* the useParallelQueue hook: queue, tasks in flight, timers

lruVars == <<responseCache, ret, gets, recency, scn>>
srvVars == <<rev, alive, reqs>>
cliVars == <<hook, match, pq>>
vars == <<responseCache, ret, gets, recency, scn, derive, rev, alive, reqs, hook, match, pq>>

Keys == {"A", "B", "C", "D"}
\* what callers store: an entry object, a string, a possibly empty string
Values == {Obj(<<"x">>, 0, 0), Str(<<"y">>), Str(<< >>)}

\* present and full describe the store as the call found it
NoCall == [op |-> "none", key |-> "", result |-> Null, present |-> FALSE, full |-> FALSE,
           stats |-> LRUCache_getStats(LRUCache(1))]
Full(c) == Len(c.cache) >= c.maxSize
Call(op, k, result) ==
    [NoCall EXCEPT !.op = op, !.key = k, !.result = result,
                   !.present = MapHas(responseCache.cache, k), !.full = Full(responseCache)]

\* move k to the most recent end of a key list
Touch(r, k) == Append(SelectSeq(r, LAMBDA x : x # k), k)

ScenarioOps == <<[op |-> "set", key |-> "A"], [op |-> "set", key |-> "B"],
                 [op |-> "set", key |-> "C"], [op |-> "get", key |-> "B"],
                 [op |-> "set", key |-> "D"]>>
\* the scenario is followed with maxSize = 2 and entries that are answers
ScenarioNext(op, k, v) ==
    IF /\ scn >= 0 /\ scn < Len(ScenarioOps)
       /\ responseCache.maxSize = 2
       /\ ScenarioOps[scn + 1] = [op |-> op, key |-> k]
       /\ (op = "set" => Truthy(v))
    THEN scn + 1
    ELSE -1

\* the key derivation at rest
NoDerive ==
    [phase |-> "idle", q1 |-> << >>, q2 |-> << >>, n1 |-> << >>, n2 |-> << >>,
     again1 |-> << >>, ix1 |-> << >>, ix2 |-> << >>, ixAgain1 |-> << >>,
     job1 |-> 0, job2 |-> 0, key1 |-> << >>, key2 |-> << >>]

\* the request slots of the server
Reqs == {"r1", "r2"}
NoBody == [answer |-> Undefined, cached |-> FALSE, ms |-> -1, cost |-> -1]
IdleReq ==
    [pc |-> "idle", question |-> << >>, sessionId |-> 0, stream |-> FALSE,
     key |-> << >>, hit |-> FALSE, cached |-> Undefined, acc |-> << >>, n |-> 0,
     genCalls |-> 0, sets |-> 0, writes |-> 0, failed |-> FALSE,
     status |-> 0, body |-> NoBody, events |-> << >>, ended |-> FALSE, timer |-> FALSE,
     \* the client has closed the connection, after cut events
     gone |-> FALSE, cut |-> 0]
\* no server
NoServer == rev = "none" /\ alive = FALSE /\ reqs = [r \in Reqs |-> IdleReq]
\* a hook that is not mounted
IdleHook ==
    [variant |-> "none", memoryLimit |-> 0, storageLimit |-> 0,
     memoryCache |-> << >>, accessOrder |-> << >>, localStorage |-> << >>,
     timers |-> << >>, storageCache |-> << >>, pending |-> << >>,
     storageItem |-> NoItem, saved |-> FALSE, now |-> 0, calls |-> 0,
     last |-> HookCall("none", << >>, ReturnedNull(FALSE), FALSE)]
\* a useParallelQueue hook that is not mounted: the refs queue, processing,
\* debounceTimers, lastProcessed and stats; the timers of processQueue that are
\* set; the invocations of processFn that have not settled, the items pushed
\* and the items passed to processFn, in order; the clock, in units of 5000 ms
NoQueue ==
    [maxConcurrent |-> 0, queue |-> << >>, processing |-> {}, debounceTimers |-> << >>,
     lastProcessed |-> << >>, stats |-> [processed |-> 0, deduped |-> 0, errors |-> 0],
     timers |-> 0, inFlight |-> {}, pushed |-> << >>, started |-> << >>,
     nextId |-> 1, adds |-> 0, now |-> 0, cleared |-> FALSE]
\* no question is being matched
NoMatch ==
    [e |-> << << >>, << >> >>, q |-> << >>, stored |-> <<FALSE, FALSE>>, reloaded |-> FALSE,
     looked |-> FALSE, before |-> IdleHook, compared |-> FALSE,
     ab |-> [num |-> 0, den |-> 1], ba |-> [num |-> 0, den |-> 1]]
NoClient == hook = IdleHook /\ match = NoMatch /\ pq = NoQueue

InitLRU ==
    /\ derive = NoDerive
    /\ NoServer
    /\ NoClient
    /\ \E n \in 1..MaxCap : responseCache = LRUCache(n)
    /\ ret = NoCall
    /\ gets = 0
    /\ recency = << >>
    /\ scn = 0

Get(k) ==
    /\ gets < MaxGets
    /\ LET r == LRUCache_get(responseCache, k) IN
        /\ responseCache' = r.obj
        /\ ret' = Call("get", k, r.result)
        /\ recency' = IF r.result # Null THEN Touch(recency, k) ELSE recency
    /\ gets' = gets + 1
    /\ scn' = ScenarioNext("get", k, Null)
    /\ UNCHANGED <<derive, srvVars, cliVars>>

Set(k, v) ==
    /\ responseCache' = LRUCache_set(responseCache, k, v)
    /\ ret' = Call("set", k, v)
    /\ recency' = Touch(recency, k)
    /\ scn' = ScenarioNext("set", k, v)
    /\ UNCHANGED <<gets, derive, srvVars, cliVars>>

GetStats ==
    /\ ret' = [NoCall EXCEPT !.op = "getStats", !.stats = LRUCache_getStats(responseCache)]
    /\ scn' = -1
    /\ UNCHANGED <<responseCache, gets, recency, derive, srvVars, cliVars>>

Next ==
    \/ \E k \in Keys : Get(k)
    \/ \E k \in Keys, v \in Values : Set(k, v)
    \/ GetStats

Spec == InitLRU /\ [][Next]_vars

(***************************************************************************)
(* Key derivation: two questions are normalized, then turned into the      *)
(* cache keys of two sessions.                                             *)
(***************************************************************************)
RECURSIVE StringsOfLen(_)
StringsOfLen(n) ==
    IF n = 0 THEN {<< >>}
    ELSE {Append(s, ch) : s \in StringsOfLen(n - 1), ch \in Alphabet}
\* the questions the handler accepts (`!question` rejects the empty one)
Questions(maxLen) == UNION {StringsOfLen(n) : n \in 1..maxLen}
\* job profile ids of sessions; 0 is no job profile
JobIds == {0, 1, 12}

InitKey ==
    /\ \E q1 \in Questions(MaxLen), q2 \in Questions(MaxLen - 1) :
            derive = [NoDerive EXCEPT !.phase = "asked", !.q1 = q1, !.q2 = q2]
    /\ responseCache = LRUCache(1)
    /\ ret = NoCall
    /\ gets = 0
    /\ recency = << >>
    /\ scn = -1
    /\ NoServer
    /\ NoClient

Normalize ==
    /\ derive.phase = "asked"
    /\ derive' = [derive EXCEPT !.phase = "normalized",
                                !.n1 = normalizeQuestion(derive.q1),
                                !.n2 = normalizeQuestion(derive.q2),
                                !.again1 = normalizeQuestion(normalizeQuestion(derive.q1)),
                                !.ix1 = normalizeQuestion_ix(derive.q1),
                                !.ix2 = normalizeQuestion_ix(derive.q2),
                                !.ixAgain1 = normalizeQuestion_ix(normalizeQuestion_ix(derive.q1))]
    /\ UNCHANGED <<lruVars, srvVars, cliVars>>

BuildKey(j1, j2) ==
    /\ derive.phase = "normalized"
    /\ derive' = [derive EXCEPT !.phase = "keyed", !.job1 = j1, !.job2 = j2,
                                !.key1 = cacheKey(j1, derive.n1),
                                !.key2 = cacheKey(j2, derive.n2)]
    /\ UNCHANGED <<lruVars, srvVars, cliVars>>

NextKey ==
    \/ Normalize
    \/ \E j1 \in JobIds, j2 \in JobIds : BuildKey(j1, j2)

SpecKey == InitKey /\ [][NextKey]_vars

(***************************************************************************)
(* The answer handlers.  Four revisions of the server are modelled:        *)
(*   "part_000"      POST /api/ai/answer of the job-profile server         *)
(*   "part_001"      POST /api/ai/answer of the optimized server           *)
(*   "index_answer"  POST /api/ai/answer of the lru-cache server           *)
(*   "index_stream"  POST /api/ai/answer-stream of the streaming server    *)
(* A handler runs up to its next await in one step.  The generator is the  *)
(* chat-completion provider: it returns an answer, streams it delta by     *)
(* delta, or fails.  The statements on the database succeed; what they     *)
(* store is not modelled.                                                  *)
(***************************************************************************)
Revs == {"part_000", "part_001", "index_answer", "index_stream"}
TtlRevs == {"index_answer", "index_stream"}
SrvQuestions == {<< >>, <<"a">>, <<"A", ":">>}
\* session ids; 0 is no session id, or one with no job profile
Sessions == {0, 1, 2}
\* interview_sessions LEFT JOIN job_profiles: the job profile of a session
JobOfSession(sid) == sid
\* the deltas of a stream and the answers they add up to
Deltas == {<< >>, <<"x">>}
RECURSIVE AnswersOfLen(_)
AnswersOfLen(n) ==
    IF n = 0 THEN {<< >>}
    ELSE {a \o d : a \in AnswersOfLen(n - 1), d \in Deltas \ {<< >>}}
GenAnswers == UNION {AnswersOfLen(n) : n \in 0..MaxDeltas}
\* Date.now() - startTime
Elapsed == {3}
\* usage.prompt_tokens, or the estimate from the length of the prompt
TokensIn(rq) == Len(rq.question) + 1

\* the entries a get can return, in recency order
LiveView(c) ==
    LET live == SelectSeq(c.cache, LAMBDA e : IF "stale" \in DOMAIN e THEN ~e.stale ELSE TRUE)
    IN  [i \in 1..Len(live) |-> [key |-> live[i].key, value |-> live[i].value]]

Ev(type, text, cached, cost) ==
    [type |-> type, text |-> text, cached |-> cached, cost |-> cost,
     tokensIn |-> -1, tokensOut |-> -1]
\* the done event of /api/ai/answer-stream, with usage.tokens
DoneEv(text, cached, tokensIn, tokensOut, cost) ==
    [Ev("done", text, cached, cost) EXCEPT !.tokensIn = tokensIn, !.tokensOut = tokensOut]

\* res.status(400).json(...), res.status(500).json(...), res.json(...)
Json(rq, status, body) ==
    [rq EXCEPT !.pc = "done", !.status = status, !.body = body, !.ended = TRUE]
\* an error nothing catches: the handler stops where it is and the process dies
Uncaught(st) == [st EXCEPT !.req.pc = "broken", !.alive = FALSE]
\* responseCache.get(key) by the handler of request rq
WithGet(st, key, r) ==
    [st EXCEPT !.cache = r.obj, !.req.key = key, !.req.cached = r.result,
               !.req.hit = Truthy(r.result)]
\* responseCache.set(key, value) by the handler of request rq
WithSet(st, cset) == [st EXCEPT !.cache = cset, !.req.sets = st.req.sets + 1]
\* the call of openai.chat.completions.create
WithGenCall(st) == [st EXCEPT !.req.pc = "awaiting", !.req.genCalls = st.req.genCalls + 1]

\* part_000, up to the await of the generator
AnswerJob_start(st) ==
    LET rq == st.req IN
    IF rq.question = << >> THEN [st EXCEPT !.req = Json(rq, 400, NoBody)]
    ELSE LET normalizedQ == normalizeQuestion(rq.question)
             key == cacheKey(JobOfSession(rq.sessionId), normalizedQ)
             s1 == WithGet(st, key, LRUCache_get(st.cache, key))
         IN  IF s1.req.hit
             \* db.prepare(...).run(...) returns no promise: .catch(...) is a TypeError,
             \* which the handler's catch turns into a 500
             THEN [s1 EXCEPT !.req = Json(s1.req, 500, NoBody)]
             ELSE WithGenCall(s1)

\* part_000, after the generator returned
AnswerJob_return(st, answer, ms) ==
    LET rq == st.req
        cost == estimateCost(TokensIn(rq), Len(answer))
        s1 == WithSet(st, LRUCache_set(st.cache, rq.key, Obj(answer, -1, -1)))
    IN  [s1 EXCEPT !.req = [Json(s1.req, 200, [answer |-> Str(answer), cached |-> FALSE,
                                                ms |-> ms, cost |-> cost])
                            EXCEPT !.timer = TRUE]]

\* part_001, up to the await of the generator
AnswerOpt_start(st) ==
    LET rq == st.req IN
    IF rq.question = << >> THEN [st EXCEPT !.req = Json(rq, 400, NoBody)]
    ELSE LET normalizedQ == normalizeQuestion(rq.question)
             s1 == WithGet(st, normalizedQ, LRUCache_get(st.cache, normalizedQ))
             cached == s1.req.cached
         IN  IF s1.req.hit
             THEN IF rq.sessionId # 0
                  \* .run(...).catch(...): a TypeError, caught: 500
                  THEN [s1 EXCEPT !.req = Json(s1.req, 500, NoBody)]
                  ELSE IF rq.stream
                  THEN [s1 EXCEPT !.req = [s1.req EXCEPT
                            !.pc = "done", !.status = 200, !.ended = TRUE,
                            !.events = <<Ev("chunk", AnswerOf(cached), FALSE, -1),
                                         Ev("done", Undefined, TRUE, -1)>>]]
                  ELSE [s1 EXCEPT !.req = Json(s1.req, 200,
                            [answer |-> AnswerOf(cached), cached |-> TRUE,
                             ms |-> 0, cost |-> -1])]
             ELSE WithGenCall(s1)

\* part_001 without stream, after the generator returned
AnswerOpt_return(st, answer, ms) ==
    LET rq == st.req
        cost == estimateCost(TokensIn(rq), Len(answer))
        s1 == WithSet(st, LRUCache_set(st.cache, rq.key, Str(answer)))
    IN  [s1 EXCEPT !.req = [Json(s1.req, 200, [answer |-> Str(answer), cached |-> FALSE,
                                                ms |-> ms, cost |-> cost])
                            EXCEPT !.timer = (rq.sessionId # 0)]]

\* part_001 with stream: one delta of the generator
AnswerOpt_delta(st, content) ==
    [st EXCEPT !.req = [st.req EXCEPT !.pc = "streaming", !.status = 200,
                                      !.acc = st.req.acc \o content,
                                      !.n = st.req.n + 1,
                                      !.events = Append(st.req.events,
                                                        Ev("chunk", Str(content), FALSE, -1))]]

\* res.status(500).json(...) in the catch of part_001: it throws once the stream
\* has written
AnswerOpt_catch(st) ==
    IF st.req.events = << >>
    THEN [st EXCEPT !.req = Json(st.req, 500, NoBody)]
    ELSE Uncaught(st)

\* part_001 with stream: the generator's stream has ended
AnswerOpt_end(st, ms) ==
    LET rq == st.req
        cost == estimateCost(TokensIn(rq), Len(rq.acc))
        s1 == WithSet(st, LRUCache_set(st.cache, rq.key, Str(rq.acc)))
    IN  IF rq.sessionId # 0
        \* .run(...).catch(...): a TypeError, inside the try
        THEN AnswerOpt_catch(s1)
        ELSE [s1 EXCEPT !.req = [s1.req EXCEPT
                    !.pc = "done", !.status = 200, !.ended = TRUE,
                    !.events = Append(s1.req.events, Ev("done", Undefined, FALSE, cost))]]

\* a handler whose hit branch does not return and goes on to the generator
AnswerLru_start_NoReturn(st) ==
    LET rq == st.req IN
    IF rq.question = << >> THEN [st EXCEPT !.req = Json(rq, 400, NoBody)]
    ELSE LET normalizedQ == normalizeQuestion_ix(rq.question)
         IN  WithGenCall(WithGet(st, normalizedQ, TtlCache_get(st.cache, normalizedQ)))

\* index.mjs POST /api/ai/answer, up to the await of the generator
AnswerLru_start(st) ==
    LET rq == st.req IN
    IF rq.question = << >> THEN [st EXCEPT !.req = Json(rq, 400, NoBody)]
    ELSE LET normalizedQ == normalizeQuestion_ix(rq.question)
             s1 == WithGet(st, normalizedQ, TtlCache_get(st.cache, normalizedQ))
             cached == s1.req.cached
         IN  IF s1.req.hit
             \* res.json({ ...cached, cached: true, tailored: false })
             THEN [s1 EXCEPT !.req = Json(s1.req, 200,
                        [answer |-> AnswerOf(cached), cached |-> TRUE,
                         ms |-> cached.ms, cost |-> cached.cost])]
             ELSE WithGenCall(s1)

\* index.mjs POST /api/ai/answer, after the generator returned
AnswerLru_return(st, answer, ms) ==
    LET rq == st.req
        cost == estimateCost(TokensIn(rq), Len(answer))
        s1 == WithSet(st, TtlCache_set(st.cache, rq.key, Obj(answer, cost, ms)))
    IN  [s1 EXCEPT !.req = Json(s1.req, 200, [answer |-> Str(answer), cached |-> FALSE,
                                               ms |-> ms, cost |-> cost])]

\* the chunk of the cached replay that starts at word i (from 0)
ReplayChunk(words, i) ==
    JoinWithSpace(SubSeq(words, i + 1, IF i + 3 < Len(words) THEN i + 3 ELSE Len(words)))
        \o <<" ">>

\* index.mjs POST /api/ai/answer-stream, up to its first await
AnswerStream_start(st) ==
    LET rq == st.req IN
    IF rq.question = << >> THEN [st EXCEPT !.req = Json(rq, 400, NoBody)]
    ELSE LET key == generateSemanticKey(rq.question)
             s1 == WithGet(st, key, TtlCache_get(st.cache, key))
             words == SplitOnSpace(s1.req.cached.text)
         IN  IF s1.req.hit
             \* the first round of the replay loop, up to its timer
             THEN [s1 EXCEPT !.req = [s1.req EXCEPT
                        !.pc = "replaying", !.status = 200, !.n = 3,
                        !.events = <<Ev("content", Str(ReplayChunk(words, 0)), FALSE, -1)>>]]
             ELSE WithGenCall(s1)

\* index.mjs POST /api/ai/answer-stream: the replay after one of its timers
AnswerStream_replay(st) ==
    LET rq == st.req
        words == SplitOnSpace(rq.cached.text)
    IN  IF rq.n < Len(words)
        THEN [st EXCEPT !.req = [rq EXCEPT
                    !.n = rq.n + 3,
                    !.events = Append(rq.events,
                                      Ev("content", Str(ReplayChunk(words, rq.n)), FALSE, -1))]]
        ELSE [st EXCEPT !.req = [rq EXCEPT
                    !.pc = "done", !.ended = TRUE,
                    !.events = rq.events \o <<DoneEv(AnswerOf(rq.cached), TRUE, 0, 0, 0),
                                               Ev("[DONE]", Undefined, FALSE, -1)>>]]

\* index.mjs POST /api/ai/answer-stream: one delta of the generator
AnswerStream_delta(st, content) ==
    IF content = << >> THEN [st EXCEPT !.req.pc = "streaming", !.req.status = 200]
    ELSE [st EXCEPT !.req = [st.req EXCEPT
                !.pc = "streaming", !.status = 200,
                !.acc = st.req.acc \o content, !.n = st.req.n + 1,
                !.events = Append(st.req.events, Ev("content", Str(content), FALSE, -1))]]

\* a live stream that ends without the [DONE] sentinel
AnswerStream_end_NoSentinel(st, ms) ==
    LET rq == st.req
        cost == estimateCost(TokensIn(rq), rq.n)
        s1 == WithSet(st, TtlCache_set(st.cache, rq.key, Obj(rq.acc, cost, ms)))
    IN  [s1 EXCEPT !.req = [s1.req EXCEPT
                !.pc = "done", !.status = 200, !.ended = TRUE,
                !.events = Append(s1.req.events,
                                  DoneEv(Str(rq.acc), FALSE, TokensIn(rq), rq.n, cost))]]

\* index.mjs POST /api/ai/answer-stream: the generator's stream has ended
AnswerStream_end(st, ms) ==
    LET rq == st.req
        cost == estimateCost(TokensIn(rq), rq.n)
        s1 == WithSet(st, TtlCache_set(st.cache, rq.key, Obj(rq.acc, cost, ms)))
    IN  [s1 EXCEPT !.req = [s1.req EXCEPT
                !.pc = "done", !.status = 200, !.ended = TRUE,
                !.events = s1.req.events \o <<DoneEv(Str(rq.acc), FALSE, TokensIn(rq), rq.n, cost),
                                              Ev("[DONE]", Undefined, FALSE, -1)>>]]

\* a handler that stores what it has of the answer when the generator fails
OnGenFail_StoresPartial(st) ==
    LET s1 == WithSet(st, IF rev \in TtlRevs
                          THEN TtlCache_set(st.cache, st.req.key, Obj(st.req.acc, 0, 0))
                          ELSE LRUCache_set(st.cache, st.req.key, Obj(st.req.acc, 0, 0)))
    IN  [s1 EXCEPT !.req = [Json(s1.req, 500, NoBody) EXCEPT !.failed = TRUE]]

\* the generator failed: create() rejected, or the stream threw between deltas
OnGenFail(st) ==
    LET s1 == [st EXCEPT !.req.failed = TRUE] IN
    CASE rev = "part_001" /\ st.req.stream -> AnswerOpt_catch(s1)
      [] rev = "index_stream" ->
            [s1 EXCEPT !.req = [s1.req EXCEPT
                    !.pc = "done", !.status = 200, !.ended = TRUE,
                    !.events = Append(s1.req.events, Ev("error", Undefined, FALSE, -1))]]
      [] OTHER -> [s1 EXCEPT !.req = Json(s1.req, 500, NoBody)]

\* one step of request r: st is what the handler makes of the request and the cache
Step(r, st) ==
    /\ reqs' = [reqs EXCEPT ![r] = [st.req EXCEPT
                    !.writes = st.req.writes +
                        (IF LiveView(st.cache) # LiveView(responseCache) THEN 1 ELSE 0)]]
    /\ responseCache' = st.cache
    /\ alive' = st.alive
    /\ UNCHANGED <<rev, ret, gets, recency, scn, derive, cliVars>>
Now(r) == [req |-> reqs[r], cache |-> responseCache, alive |-> alive]

InitServer ==
    /\ rev \in Revs
    /\ alive = TRUE
    /\ reqs = [r \in Reqs |-> IdleReq]
    /\ \E n \in 1..MaxCap :
            responseCache = IF rev \in TtlRevs THEN TtlCache(n) ELSE LRUCache(n)
    /\ ret = NoCall
    /\ gets = 0
    /\ recency = << >>
    /\ scn = -1
    /\ derive = NoDerive
    /\ NoClient

\* a request arrives and its handler runs up to its first await
Start(r, q, sid, stream) ==
    /\ alive /\ reqs[r].pc = "idle"
    \* the slots are taken in order
    /\ r = "r2" => reqs["r1"].pc # "idle"
    /\ stream => rev = "part_001"
    /\ LET st == [Now(r) EXCEPT !.req.question = q, !.req.sessionId = sid,
                                !.req.stream = stream]
       IN  Step(r, CASE rev = "part_000" -> AnswerJob_start(st)
                     [] rev = "part_001" -> AnswerOpt_start(st)
                     [] rev = "index_answer" -> AnswerLru_start(st)
                     [] OTHER -> AnswerStream_start(st))

Streams(r) == rev = "index_stream" \/ (rev = "part_001" /\ reqs[r].stream)

\* the generator returns the whole answer
GenReturn(r, answer, ms) ==
    /\ alive /\ reqs[r].pc = "awaiting" /\ ~Streams(r)
    /\ Step(r, CASE rev = "part_000" -> AnswerJob_return(Now(r), answer, ms)
                 [] rev = "part_001" -> AnswerOpt_return(Now(r), answer, ms)
                 [] OTHER -> AnswerLru_return(Now(r), answer, ms))

\* the generator streams one delta
GenDelta(r, content) ==
    /\ alive /\ reqs[r].pc \in {"awaiting", "streaming"} /\ Streams(r)
    /\ reqs[r].n < MaxDeltas
    /\ Step(r, IF rev = "part_001" THEN AnswerOpt_delta(Now(r), content)
               ELSE AnswerStream_delta(Now(r), content))

\* the generator ends its stream
GenEnd(r, ms) ==
    /\ alive /\ reqs[r].pc \in {"awaiting", "streaming"} /\ Streams(r)
    /\ Step(r, IF rev = "part_001" THEN AnswerOpt_end(Now(r), ms)
               ELSE AnswerStream_end(Now(r), ms))

\* the generator fails, before its first token or in the middle of its stream
GenFail(r) ==
    /\ alive /\ reqs[r].pc \in {"awaiting", "streaming"}
    /\ Step(r, OnGenFail(Now(r)))

\* a 20 ms timer of the cached replay fires
ReplayStep(r) ==
    /\ alive /\ reqs[r].pc = "replaying"
    /\ Step(r, AnswerStream_replay(Now(r)))

\* setTimeout(() => db.prepare(...).run(...).catch(...), 0) fires: run returns no
\* promise, the TypeError is caught by nothing and ends the process
DbWriteTimer(r) ==
    /\ alive /\ reqs[r].timer
    /\ Step(r, Uncaught([Now(r) EXCEPT !.req.timer = FALSE]))

\* the client closes the connection of POST /api/ai/answer-stream before the
\* stream has ended; the handler has no listener for it and goes on, and
\* res.write on the closed connection returns false
Disconnect(r) ==
    /\ alive /\ rev = "index_stream" /\ ~reqs[r].gone
    /\ reqs[r].pc \in {"awaiting", "streaming", "replaying"}
    /\ Step(r, [Now(r) EXCEPT !.req.gone = TRUE, !.req.cut = Len(reqs[r].events)])

\* the ttl of an entry passes
ExpireEntry(i) ==
    /\ alive /\ rev \in TtlRevs
    /\ i \in 1..Len(responseCache.cache)
    /\ ~responseCache.cache[i].stale
    /\ responseCache' = [responseCache EXCEPT !.cache[i].stale = TRUE]
    /\ UNCHANGED <<rev, alive, reqs, ret, gets, recency, scn, derive, cliVars>>

NextServer ==
    \/ \E r \in Reqs, q \in SrvQuestions, sid \in Sessions, stream \in BOOLEAN :
            Start(r, q, sid, stream)
    \/ \E r \in Reqs, answer \in GenAnswers, ms \in Elapsed : GenReturn(r, answer, ms)
    \/ \E r \in Reqs, content \in Deltas : GenDelta(r, content)
    \/ \E r \in Reqs, ms \in Elapsed : GenEnd(r, ms)
    \/ \E r \in Reqs : GenFail(r)
    \/ \E r \in Reqs : ReplayStep(r)
    \/ \E r \in Reqs : DbWriteTimer(r)
    \/ \E r \in Reqs : Disconnect(r)
    \/ \E i \in 1..MaxCap : ExpireEntry(i)

SpecServer == InitServer /\ [][NextServer]_vars

(***************************************************************************)
(* The hook in the browser.  The limits of the two tiers (25 or 50 entries *)
(* in memory, 150 items in the storage) are chosen small at the start.     *)
(* The page calls getCached and setCached; the timers of setCached and the *)
(* renders of React run between the calls; the page may be reloaded; the   *)
(* clock advances; an item of localStorage may be damaged from outside.    *)
(***************************************************************************)
Variants == {"similarity", "map"}
\* questions: one with a word, one with no word of three characters, and one
\* that normalizes to the empty string
ClientQuestions == {<<"a", "a", "a">>, <<"a">>, <<" ">>}
ClientAnswers == {<<"y">>}
\* MEMORY_LIMIT (25) or MEMORY_CACHE_SIZE (50), and STORAGE_LIMIT (150), made small
MemoryLimits == {1, 2}
StorageLimits == {2}
\* what an earlier visit of the page has left in localStorage: nothing, or the
\* answer to one question
EarlierStorage ==
    {<< >>, <<[key |-> <<"a", "a", "a">>, value |-> CacheData(<<"x">>, 0)]>>}
\* days the clock advances by
TickDays == {30, 31}

InitClient ==
    /\ \E v \in Variants, m \in MemoryLimits, n \in StorageLimits, old \in EarlierStorage :
            \* the first mount, on what the earlier visit has left
            hook = MountHook([IdleHook EXCEPT
                                !.variant = v, !.memoryLimit = m,
                                !.storageLimit = IF v = "similarity" THEN n ELSE 0,
                                !.localStorage = IF v = "similarity" THEN old ELSE << >>,
                                !.storageItem = IF v = "map" THEN StoredMap(old)
                                                ELSE NoItem],
                             FALSE)
    /\ responseCache = LRUCache(1)
    /\ ret = NoCall
    /\ gets = 0
    /\ recency = << >>
    /\ scn = -1
    /\ derive = NoDerive
    /\ NoServer
    /\ match = NoMatch
    /\ pq = NoQueue

ClientStep(h) ==
    /\ hook' = h
    /\ UNCHANGED <<lruVars, derive, srvVars, match, pq>>

GetCached(q, fault) ==
    /\ hook.calls < MaxCalls
    /\ ClientStep([(IF hook.variant = "similarity" THEN getCached(hook, q, fault)
                    ELSE getCached_map(hook, q))
                   EXCEPT !.calls = @ + 1])

SetCached(q, a) ==
    /\ hook.calls < MaxCalls
    /\ ClientStep([(IF hook.variant = "similarity" THEN setCached(hook, q, a)
                    ELSE setCached_map(hook, q, a))
                   EXCEPT !.calls = @ + 1])

\* the oldest setTimeout callback of setCached runs
StorageTimer(fault) ==
    /\ hook.variant = "similarity" /\ hook.timers # << >>
    /\ \E order \in KeyOrders(Len(MapSet(hook.localStorage, Head(hook.timers).key,
                                          Head(hook.timers).data))) :
            ClientStep(StorageWrite(hook, fault, order))

\* React renders the component after setStorageCache
Render(fault) ==
    /\ hook.variant = "map" /\ hook.pending # << >>
    /\ ClientStep(RenderHook(hook, fault))

\* the page is loaded again
Reload(fault) == ClientStep(MountHook(hook, fault))

\* the clock advances, until the entries of the first day are too old
Tick(d) ==
    /\ hook.now < MaxAgeDays
    /\ ClientStep([hook EXCEPT !.now = @ + d])

\* an item of localStorage is overwritten from outside with text that does not
\* parse, or the item of the Map variant is removed
Damage(i) ==
    \/ /\ hook.variant = "similarity" /\ i \in 1..Len(hook.localStorage)
       /\ hook.localStorage[i].value.kind # "corrupt"
       /\ ClientStep([hook EXCEPT !.localStorage[i].value = CorruptItem])
    \/ /\ hook.variant = "map" /\ i = 1 /\ hook.storageItem.kind = "map"
       /\ ClientStep([hook EXCEPT !.storageItem = [kind |-> "corrupt", entries |-> << >>]])
    \/ /\ hook.variant = "map" /\ i = 2 /\ hook.storageItem.kind = "map"
       /\ ClientStep([hook EXCEPT !.storageItem = NoItem])

NextClient ==
    \/ \E q \in ClientQuestions, fault \in BOOLEAN : GetCached(q, fault)
    \/ \E q \in ClientQuestions, a \in ClientAnswers : SetCached(q, a)
    \/ \E fault \in BOOLEAN : StorageTimer(fault)
    \/ \E fault \in BOOLEAN : Render(fault)
    \/ \E fault \in BOOLEAN : Reload(fault)
    \/ \E d \in TickDays : Tick(d)
    \/ \E i \in 1..3 : Damage(i)

SpecClient == InitClient /\ [][NextClient]_vars

(***************************************************************************)
(* The matcher of the similarity variant: two questions are stored, in     *)
(* order, by setCached; their storage writes run; the page may be loaded   *)
(* again, which leaves the entries to the storage tier alone; a third      *)
(* question is looked up by getCached; jaccardSimilarity is applied to the *)
(* first question and the third, in both orders.                           *)
(***************************************************************************)
\* words of three characters, which the matcher keeps, and one of two, which it
\* drops
Word(i) == <<<<"a", "a", "a">>, <<"a", "a", "1">>, <<"a", "1", "1">>,
             <<"1", "1", "1">>, <<"1", "a", "1">>>>[i]
ShortWord == <<"a", "1">>
RECURSIVE JoinWords(_, _)
JoinWords(ws, sep) ==
    IF ws = << >> THEN << >>
    ELSE IF Len(ws) = 1 THEN Head(ws)
    ELSE Head(ws) \o sep \o JoinWords(Tail(ws), sep)
\* the questions: none, of three, four and five words, the four words in
\* another order and with other separators and capitals, a repeated word, a
\* short word only
MatchQuestions ==
    { << >>,
      JoinWords(<<Word(1), Word(2), Word(3)>>, <<" ">>),
      JoinWords(<<Word(1), Word(2), Word(3), Word(4)>>, <<" ">>),
      JoinWords(<<Word(1), Word(2), Word(3), Word(4), Word(5)>>, <<" ">>),
      JoinWords(<<Word(4), Word(3), Word(2), Word(1)>>, <<" ">>),
      JoinWords(<<<<"A", "a", "A">>, Word(2), Word(3), Word(4)>>, <<":", " ">>),
      JoinWords(<<Word(1), Word(1), ShortWord>>, <<" ">>),
      ShortWord }
\* the answer stored for the first question and for the second
MatchAnswer(i) == <<<<"x">>, <<"y">>>>[i]
\* MEMORY_LIMIT and STORAGE_LIMIT leave room for both questions
MatchLimit == 2

InitMatch ==
    /\ \E e1 \in MatchQuestions, e2 \in MatchQuestions, q \in MatchQuestions :
            match = [NoMatch EXCEPT !.e = <<e1, e2>>, !.q = q]
    /\ hook = MountHook([IdleHook EXCEPT !.variant = "similarity",
                                        !.memoryLimit = MatchLimit,
                                        !.storageLimit = MatchLimit], FALSE)
    /\ responseCache = LRUCache(1)
    /\ ret = NoCall
    /\ gets = 0
    /\ recency = << >>
    /\ scn = -1
    /\ derive = NoDerive
    /\ NoServer
    /\ pq = NoQueue

MatchStep(h, m) ==
    /\ hook' = h
    /\ match' = m
    /\ UNCHANGED <<lruVars, derive, srvVars, pq>>

\* setCached of the first question, then of the second
MatchStore(i) ==
    /\ ~match.stored[i] /\ (i = 2 => match.stored[1]) /\ ~match.looked
    /\ MatchStep(setCached(hook, match.e[i], MatchAnswer(i)),
                 [match EXCEPT !.stored[i] = TRUE])

\* the oldest setTimeout callback of setCached runs
MatchTimer ==
    /\ hook.timers # << >>
    /\ \E order \in KeyOrders(Len(MapSet(hook.localStorage, Head(hook.timers).key,
                                          Head(hook.timers).data))) :
            MatchStep(StorageWrite(hook, FALSE, order), match)

\* the page is loaded again once the storage writes have run
MatchReload ==
    /\ ~match.reloaded /\ ~match.looked /\ match.stored[1] /\ hook.timers = << >>
    /\ MatchStep(MountHook(hook, FALSE), [match EXCEPT !.reloaded = TRUE])

\* getCached of the third question; before is the hook as the call found it
MatchLookup ==
    /\ ~match.looked
    /\ \E order \in KeyOrders(Len(hook.localStorage)) :
            \* Object.keys(localStorage) lists the items in the browser's order
            LET h == [hook EXCEPT !.localStorage =
                                    [i \in 1..Len(@) |-> hook.localStorage[order[i]]]]
            IN  MatchStep(getCached(h, match.q, FALSE),
                          [match EXCEPT !.looked = TRUE, !.before = h])

\* jaccardSimilarity of the first question and the third, in both orders
MatchCompare ==
    /\ ~match.compared
    /\ MatchStep(hook, [match EXCEPT !.compared = TRUE,
                                     !.ab = jaccardSimilarity(match.e[1], match.q),
                                     !.ba = jaccardSimilarity(match.q, match.e[1])])

NextMatch ==
    \/ \E i \in 1..2 : MatchStore(i)
    \/ MatchTimer
    \/ MatchReload
    \/ MatchLookup
    \/ MatchCompare

SpecMatch == InitMatch /\ [][NextMatch]_vars

(***************************************************************************)
(* The queue in the browser.  The page calls add and clear; the debounce   *)
(* timers and the timers of processQueue fire; the invocations of          *)
(* processFn settle, fulfilled or rejected; the clock advances.            *)
(***************************************************************************)
\* maxConcurrent: 1 in App, 2 by default
QueueLimits == {1, 2}
\* what add is called with: two questions of one normalized form and another
QueueData == {<<"a">>, <<"A">>, <<"1">>}

InitQueue ==
    /\ \E m \in QueueLimits : pq = [NoQueue EXCEPT !.maxConcurrent = m]
    /\ hook = IdleHook
    /\ match = NoMatch
    /\ responseCache = LRUCache(1)
    /\ ret = NoCall
    /\ gets = 0
    /\ recency = << >>
    /\ scn = -1
    /\ derive = NoDerive
    /\ NoServer

QueueStep(q) ==
    /\ pq' = q
    /\ UNCHANGED <<lruVars, derive, srvVars, hook, match>>

Add(data) ==
    /\ pq.adds < MaxAdds
    /\ QueueStep(add(pq, data))

\* the oldest debounce timer fires
DebounceTimer ==
    /\ pq.debounceTimers # << >>
    /\ QueueStep(debounceFire(pq))

\* a setTimeout(processQueue, 10) fires
QueueTimer ==
    /\ pq.timers > 0
    /\ QueueStep(processQueue([pq EXCEPT !.timers = @ - 1]))

\* an invocation of processFn settles
Settle(id, fulfilled) ==
    /\ id \in pq.inFlight
    /\ QueueStep(settle(pq, id, fulfilled))

\* clear() is called, once
Clear ==
    /\ ~pq.cleared
    /\ QueueStep(clear(pq))

\* 5000 ms pass
QueueTick ==
    /\ pq.now < 1
    /\ QueueStep([pq EXCEPT !.now = @ + 1])

NextQueue ==
    \/ \E data \in QueueData : Add(data)
    \/ DebounceTimer
    \/ QueueTimer
    \/ \E id \in 1..MaxAdds, fulfilled \in BOOLEAN : Settle(id, fulfilled)
    \/ Clear
    \/ QueueTick

SpecQueue == InitQueue /\ [][NextQueue]_vars

\* the queue when clear() is not called, every timer that is set fires and every
\* invocation of processFn settles
NextQueueKept ==
    \/ \E data \in QueueData : Add(data)
    \/ DebounceTimer
    \/ QueueTimer
    \/ \E id \in 1..MaxAdds, fulfilled \in BOOLEAN : Settle(id, fulfilled)
    \/ QueueTick

SpecQueueKept ==
    /\ InitQueue /\ [][NextQueueKept]_vars
    /\ WF_vars(DebounceTimer)
    /\ WF_vars(QueueTimer)
    /\ \A id \in 1..MaxAdds : WF_vars(\E fulfilled \in BOOLEAN : Settle(id, fulfilled))

(***************************************************************************)
(* Properties of the LRUCache class.                                       *)
(***************************************************************************)
Store == responseCache.cache
KeySet(m) == {m[i].key : i \in 1..Len(m)}
LastKey(m) == m[Len(m)].key
\* the stored key whose last get-hit or set is the oldest
OldestUsed == SelectSeq(recency, LAMBDA x : MapHas(Store, x))[1]

\* C1: after every get and set the store holds at most maxSize entries
C1_Capacity == Len(Store) <= responseCache.maxSize
\* a set of a new key has just found the store full
C1_Witness ==
    /\ ret.op = "set" /\ ~ret.present /\ ret.full
    /\ Len(Store) = responseCache.maxSize

\* a set of an absent key into a full store removes exactly the entry used longest ago
C2_EvictsOldest ==
    \A k \in Keys, v \in Values :
        (Set(k, v) /\ ~MapHas(Store, k) /\ Full(responseCache)) =>
            /\ KeySet(Store') = (KeySet(Store) \ {OldestUsed}) \cup {k}
            /\ Len(Store') = Len(Store)
            /\ MapDelete(Store', k) = MapDelete(Store, OldestUsed)
\* maxSize = 2: after set A, B, C the key A is gone and B, C are hits;
\* after a further get B and set D the key C is gone and B is kept
C2_Scenario ==
    /\ scn = 3 =>
        /\ LRUCache_get(responseCache, "A").result = Null
        /\ LRUCache_get(responseCache, "B").result # Null
        /\ LRUCache_get(responseCache, "C").result # Null
    /\ scn = 5 =>
        /\ KeySet(Store) = {"B", "D"}
        /\ LRUCache_get(responseCache, "C").result = Null
        /\ LRUCache_get(responseCache, "B").result # Null
\* C2: set of an absent key into a full store evicts exactly the least recently
\* used entry (by last get-hit or set); the A, B, C, get B, D scenario of maxSize 2
C2_LRUEviction == [] C2_Scenario /\ [][C2_EvictsOldest]_vars
\* the scenario has run to its end
C2_Witness == scn = 5 /\ ret.op = "set" /\ ret.key = "D" /\ ~ret.present /\ ret.full

\* C3: get of a present key, whatever is stored under it, counts a hit, makes the key
\* the most recently used and returns the stored entry; get of an absent key counts a
\* miss, returns null and leaves the store as it was
C3_GetEffect ==
    [][\A k \in Keys : Get(k) =>
        IF MapHas(Store, k)
        THEN /\ responseCache'.hits = responseCache.hits + 1
             /\ responseCache'.misses = responseCache.misses
             /\ LastKey(Store') = k
             /\ ret'.result = MapGet(Store, k)
        ELSE /\ responseCache'.misses = responseCache.misses + 1
             /\ responseCache'.hits = responseCache.hits
             /\ ret'.result = Null
             /\ Store' = Store]_vars

\* C4: set of a key already stored replaces its entry, makes it the most recently
\* used and evicts nothing, also when the store is full
C4_Replace ==
    [][\A k \in Keys, v \in Values : (Set(k, v) /\ MapHas(Store, k)) =>
        /\ MapGet(Store', k) = v
        /\ LastKey(Store') = k
        /\ KeySet(Store') = KeySet(Store)
        /\ Len(Store') = Len(Store)
        /\ MapDelete(Store', k) = MapDelete(Store, k)]_vars
\* a stored key has just been set again in a full store of two entries
C4_Witness ==
    /\ ret.op = "set" /\ ret.present /\ ret.full
    /\ Len(Store) = 2 /\ LastKey(Store) = ret.key /\ MapGet(Store, ret.key) = ret.result

\* C5: hits + misses is the number of get calls; no counter decreases; only get changes them
C5_Counters ==
    /\ [] (responseCache.hits + responseCache.misses = gets)
    /\ [][/\ responseCache'.hits >= responseCache.hits
          /\ responseCache'.misses >= responseCache.misses
          /\ (gets' = gets =>
                /\ responseCache'.hits = responseCache.hits
                /\ responseCache'.misses = responseCache.misses)]_vars
\* hits and misses have both been counted and getStats reports them
C5_Witness ==
    /\ ret.op = "getStats" /\ ret.stats.hits >= 1 /\ ret.stats.misses >= 1
    /\ ret.stats.hits + ret.stats.misses = gets

(***************************************************************************)
(* Properties of the key derivation.                                       *)
(***************************************************************************)
\* the words of a question: lower-cased, split at punctuation and whitespace
RECURSIVE WordsOf(_, _, _)
WordsOf(s, word, acc) ==
    IF s = << >> THEN (IF word = << >> THEN acc ELSE Append(acc, word))
    ELSE IF IsWord(Head(s))
         THEN WordsOf(Tail(s), Append(word, LowerChar(Head(s))), acc)
         ELSE WordsOf(Tail(s), << >>, IF word = << >> THEN acc ELSE Append(acc, word))
\* the two questions differ only in letter case, punctuation and runs of whitespace
SameWords(q1, q2) == WordsOf(q1, << >>, << >>) = WordsOf(q2, << >>, << >>)
AnEntry == Obj(<<"x">>, 0, 0)

\* C6: questions that differ only in letter case, punctuation and runs of whitespace
\* derive the same key, so the answer stored for one is a hit for the other
C6_SameKey ==
    (derive.phase = "normalized" /\ SameWords(derive.q1, derive.q2)) =>
        /\ derive.n1 = derive.n2
        /\ LRUCache_get(LRUCache_set(LRUCache(1), derive.n2, AnEntry), derive.n1).result
                = AnEntry

\* C7: normalizing a normalized question changes nothing
C7_Idempotent == derive.phase = "normalized" => derive.again1 = derive.n1

\* C8: the keys of two (job profile, normalized question) pairs are equal only when
\* the job profiles are equal and the normalized questions are equal
C8_KeyInjective ==
    (derive.phase = "keyed" /\ derive.key1 = derive.key2) =>
        (derive.job1 = derive.job2 /\ derive.n1 = derive.n2)
\* two different questions of one job profile have met in one key
C8_Witness ==
    /\ derive.phase = "keyed" /\ derive.key1 = derive.key2
    /\ derive.job1 = 12 /\ derive.q1 # derive.q2

(***************************************************************************)
(* Properties of the answer handlers.                                      *)
(***************************************************************************)
\* C9: a request whose generator failed, before the first token or in the middle of
\* the stream, has called no cache set and has left the entries a get can return,
\* and their recency order, as they were
C9_NoSetOnFailure ==
    \A r \in Reqs : reqs[r].failed => (reqs[r].sets = 0 /\ reqs[r].writes = 0)
\* a stream has failed after its first delta while the store holds another answer
C9_Witness ==
    \E r \in Reqs :
        /\ reqs[r].failed /\ reqs[r].acc # << >>
        /\ Len(responseCache.cache) >= 1
        /\ ~MapHas(responseCache.cache, reqs[r].key)

\* C10: a POST /api/ai/answer whose lookup hits answers 200 with the stored answer
\* text in its answer field and cached: true
C10_HitResponse ==
    \A r \in Reqs :
        (/\ rev \in {"part_000", "part_001", "index_answer"}
         /\ reqs[r].hit /\ ~reqs[r].stream /\ reqs[r].pc = "done") =>
            /\ reqs[r].status = 200
            /\ reqs[r].body.answer = Str(reqs[r].cached.text)
            /\ reqs[r].body.cached = TRUE

\* C11: a response served from the cache reports no latency, cost or token count
\* other than 0: a cached JSON body has processingTimeMs 0 and cost 0 where it has
\* them, and the done event of a cached stream has zero tokens and zero cost
C11_CachedZeroCost ==
    \A r \in Reqs :
        LET rq == reqs[r] IN
        (rq.hit /\ rq.status = 200) =>
            /\ rq.body.cached => (rq.body.ms \in {0, -1} /\ rq.body.cost \in {0, -1})
            /\ \A i \in 1..Len(rq.events) :
                    rq.events[i].type = "done" =>
                        /\ rq.events[i].cost \in {0, -1}
                        /\ rq.events[i].tokensIn \in {0, -1}
                        /\ rq.events[i].tokensOut \in {0, -1}

\* the requests that got past the check of the question
Asked(r) == reqs[r].pc # "idle" /\ reqs[r].question # << >>

Written(rq) == IF rq.body.answer # Undefined THEN rq.body.answer.text ELSE rq.acc
\* the entries of the store under a key
EntriesOf(m, key) == {i \in 1..Len(m) : m[i].key = key}
\* two requests that missed on the same key
Concurrent(r1, r2) ==
    /\ r1 # r2 /\ Asked(r1) /\ Asked(r2)
    /\ reqs[r1].key = reqs[r2].key
    /\ ~reqs[r1].hit /\ ~reqs[r2].hit
\* both have answered successfully: each has called the generator once and set once
C13_EachCallsAndSets ==
    \A r1, r2 \in Reqs :
        (/\ Concurrent(r1, r2)
         /\ \A r \in {r1, r2} : reqs[r].pc = "done" /\ reqs[r].status = 200 /\ ~reqs[r].failed)
        => \A r \in {r1, r2} : reqs[r].genCalls = 1 /\ reqs[r].sets = 1
\* a set by one of them leaves one entry under the key, holding what it wrote
C13_LastSetWins ==
    \A r1, r2 \in Reqs :
        (Concurrent(r1, r2) /\ reqs'[r1].sets = reqs[r1].sets + 1) =>
            LET m == responseCache'.cache
                key == reqs[r1].key
            IN  /\ Cardinality(EntriesOf(m, key)) = 1
                /\ MapGet(m, key).text = Written(reqs'[r1])
\* C13: two requests that miss on the same key before either has set are not
\* coalesced: each calls the generator once and sets once, and after each set the
\* store holds one entry for the key, the value of that set, so the later set wins
C13_NotCoalesced == [] C13_EachCallsAndSets /\ [][C13_LastSetWins]_vars
\* both were waiting for the generator at once, got different answers, and the
\* store holds the answer of the one that set last
C13_Witness ==
    /\ rev = "part_000" /\ Concurrent("r1", "r2")
    /\ reqs["r1"].pc = "done" /\ reqs["r2"].pc = "done"
    /\ reqs["r1"].sets = 1 /\ reqs["r2"].sets = 1
    /\ reqs["r1"].body.answer # reqs["r2"].body.answer
    /\ Cardinality(EntriesOf(Store, reqs["r1"].key)) = 1
    /\ MapGet(Store, reqs["r1"].key).text = reqs["r1"].body.answer.text

\* the text of the content events of a response, in the order written
RECURSIVE ConcatContent(_)
ConcatContent(events) ==
    IF events = << >> THEN << >>
    ELSE (IF Head(events).type = "content" THEN Head(events).text.text ELSE << >>)
            \o ConcatContent(Tail(events))

\* C14: when the cached path of /api/ai/answer-stream has ended, the content chunks
\* it wrote, put together in order, are the cached answer, character for character
C14_ReplayFidelity ==
    \A r \in Reqs :
        (rev = "index_stream" /\ reqs[r].hit /\ reqs[r].pc = "done") =>
            ConcatContent(reqs[r].events) = reqs[r].cached.text

MemoryKey(h, q) ==
    IF h.variant = "similarity" THEN quickHash(trim(toLowerCase(q))) ELSE normalize(q)
\* the object the memory tier holds under a key
MemoryData(h, k) ==
    IF h.variant = "similarity" THEN MapGet(h.memoryCache, k).data
    ELSE MapGet(h.memoryCache, k)
\* the memory tier holds the answer a for the question q
InMemory(h, q, a) ==
    /\ MapHas(h.memoryCache, MemoryKey(h, q))
    /\ MemoryData(h, MemoryKey(h, q)).answer = a
    /\ h.variant = "similarity" =>
            MapGet(h.memoryCache, MemoryKey(h, q)).question = trim(toLowerCase(q))
\* the step is a call of op
Calls(op) == hook'.calls = hook.calls + 1 /\ hook'.last.op = op

\* a getCached served by the storage tier has put what it returned into the
\* memory tier
C16_Promoted ==
    (hook.last.op = "getCached" /\ hook.last.ret.source = "storage") =>
        /\ hook.last.ret.found
        /\ InMemory(hook, hook.last.question, hook.last.ret.answer)
\* the getCached of the same question that follows it is served by the memory
\* tier, with the same answer and without a look at the storage tier
C16_ThenFromMemory ==
    (/\ hook.last.op = "getCached" /\ hook.last.ret.source = "storage"
     /\ Calls("getCached") /\ hook'.last.question = hook.last.question) =>
        /\ hook'.last.ret.found /\ hook'.last.ret.source = "memory"
        /\ ~hook'.last.ret.readStorage
        /\ hook'.last.ret.answer = hook.last.ret.answer
\* C16: in both variants a getCached that finds no match in the memory tier and a
\* usable one in the storage tier returns it and inserts it into the memory tier,
\* and the next getCached of that question is served from the memory tier alone
C16_TieredPromotion == [] C16_Promoted /\ [][C16_ThenFromMemory]_vars
\* a getCached has just been served by the storage tier while the memory tier
\* held another question
C16_Witness ==
    /\ hook.last.op = "getCached" /\ hook.last.ret.source = "storage"
    /\ Len(hook.memoryCache) = 2
    /\ InMemory(hook, hook.last.question, hook.last.ret.answer)

\* after setCached(q, a) the memory tier holds a for q
C17_InMemory ==
    hook.last.op = "setCached" => InMemory(hook, hook.last.question, hook.last.answer)
\* a deferred storage write that went through has left its entry in the storage
\* tier
C17_InStorage ==
    /\ (hook.timers # << >> /\ hook'.timers = Tail(hook.timers)
        /\ hook'.last = hook.last /\ hook'.saved) =>
            /\ MapHas(hook'.localStorage, Head(hook.timers).key)
            /\ MapGet(hook'.localStorage, Head(hook.timers).key) = Head(hook.timers).data
    /\ (hook.pending # << >> /\ hook'.pending = << >> /\ hook'.last = hook.last) =>
            \A i \in 1..Len(hook.pending) : MapHas(hook'.storageCache, hook.pending[i].key)
\* C17: setCached(q, a) writes through: when the call has returned the memory
\* tier holds a for q, and when its deferred storage write has run the storage
\* tier holds it too
C17_WriteThrough == [] C17_InMemory /\ [][C17_InStorage]_vars

\* C18: the memory tier never holds more entries than its limit
C18_MemoryBound == Len(hook.memoryCache) <= hook.memoryLimit

\* the step is a storage write of setCached that got past setItem
StorageWritten ==
    /\ hook.timers # << >> /\ hook'.timers = Tail(hook.timers)
    /\ hook'.last = hook.last /\ hook'.saved
\* after it the storage is within its limit, and no item it removed is newer than
\* an item it kept
C19_Cleanup ==
    StorageWritten =>
        LET before == MapSet(hook.localStorage, Head(hook.timers).key, Head(hook.timers).data)
            after == hook'.localStorage
            removed == {i \in 1..Len(before) : ~MapHas(after, before[i].key)}
            kept == {i \in 1..Len(before) : MapHas(after, before[i].key)}
        IN  /\ Len(after) <= hook.storageLimit
            /\ \A r \in removed, k \in kept :
                    before[r].value.timestamp <= before[k].value.timestamp
\* C19: once the storage write of a setCached of the similarity variant has run,
\* the storage holds at most its limit of cache items, and the cleanup has removed
\* the oldest ones by timestamp
C19_OldestRemoved == [][C19_Cleanup]_vars

\* the memory tier has the exact match getCached looks for first
ExactInMemory(h, q) ==
    /\ MapHas(h.memoryCache, MemoryKey(h, q))
    /\ h.variant = "similarity" =>
            Similar(MapGet(h.memoryCache, MemoryKey(h, q)).question,
                    trim(toLowerCase(q)), HashMatchThreshold)
\* no exception leaves a call; a mount that could not read a stored Map starts
\* empty; a getCached whose storage read failed returns null
C20_Contained ==
    /\ ~hook.last.threw
    /\ (hook.last.op = "mount" /\ ~hook.last.ret.found) =>
            (hook.memoryCache = << >> /\ hook.storageCache = << >>)
    /\ (hook.last.op = "getCached" /\ hook.last.failed) => ~hook.last.ret.found
\* whatever the state of the storage, a getCached of a question the memory tier
\* holds is served from it, a setCached returns with its entry queued for the
\* storage, and a memory tier that has room by its limit takes the entry
C20_MemoryServes ==
    /\ (Calls("getCached") /\ ExactInMemory(hook, hook'.last.question)) =>
            (hook'.last.ret.found /\ hook'.last.ret.source = "memory")
    /\ Calls("setCached") =>
            Len(hook'.timers) + Len(hook'.pending) = Len(hook.timers) + Len(hook.pending) + 1
    /\ (Calls("setCached") /\ Len(hook.memoryCache) <= hook.memoryLimit) =>
            InMemory(hook', hook'.last.question, hook'.last.answer)
\* C20: no failure of the storage (an empty, unparsable or unreadable item, a
\* failed write) leaves initialisation, getCached or setCached as an exception:
\* initialisation starts with an empty cache, a failed read is a miss, and the
\* memory tier goes on serving and taking entries
C20_StorageFailuresContained == [] C20_Contained /\ [][C20_MemoryServes]_vars
\* a getCached has caught a failure of the storage and returned null while the
\* memory tier holds an entry
C20_Witness ==
    /\ hook.last.op = "getCached" /\ hook.last.failed /\ ~hook.last.ret.found
    /\ hook.memoryCache # << >>

(***************************************************************************)
(* Properties of the entry lifetime and of the similarity matcher.         *)
(***************************************************************************)
\* a getCached that returns an entry returns one of the last 30 days
C21_Step ==
    (hook.variant = "similarity" /\ Calls("getCached") /\ hook'.last.ret.found) =>
        hook'.now - hook'.last.ret.timestamp <= MaxAgeDays
\* C21: in the similarity variant getCached never returns an entry whose
\* timestamp is more than 30 days old, whichever tier holds it
C21_NoStaleEntry == [][C21_Step]_vars

\* C22: jaccardSimilarity(a, b) equals jaccardSimilarity(b, a), and so does the
\* decision against either threshold
C22_Symmetric ==
    match.compared =>
        /\ match.ab = match.ba
        /\ \A t \in {SIMILARITY_THRESHOLD, HashMatchThreshold} :
                Similar(match.e[1], match.q, t) <=> Similar(match.q, match.e[1], t)
\* two questions that share some of their words, one with more words than the
\* other, have been compared
C22_Witness ==
    /\ match.compared
    /\ match.ab.num > 0 /\ match.ab.num < match.ab.den
    /\ Cardinality(WordSet(match.e[1])) < Cardinality(WordSet(match.q))

\* x >= p / q
AtLeast(x, p, q) == x.num * q >= p * x.den
\* a tier of h holds a usable entry whose question is at least as similar to
\* normalizedQ as the threshold asks
HoldsSimilar(h, normalizedQ) ==
    \/ \E i \in 1..Len(h.memoryCache) :
            AtLeast(jaccardSimilarity(h.memoryCache[i].value.question, normalizedQ),
                    SIMILARITY_THRESHOLD[1], SIMILARITY_THRESHOLD[2])
    \/ \E i \in 1..Len(h.localStorage) :
            /\ h.localStorage[i].value.kind = "data" /\ Fresh(h, h.localStorage[i].value)
            /\ AtLeast(jaccardSimilarity(h.localStorage[i].key, normalizedQ),
                       SIMILARITY_THRESHOLD[1], SIMILARITY_THRESHOLD[2])
\* C23: the lookup accepts a stored entry if and only if the Jaccard similarity
\* of its question and the query is greater than or equal to 0.75
C23_AtLeastThreshold ==
    match.looked =>
        (hook.last.ret.found <=> HoldsSimilar(match.before, trim(toLowerCase(match.q))))

\* the entries of the memory tier that clear the threshold for normalizedQ
SimilarInMemory(h, normalizedQ) ==
    {i \in 1..Len(h.memoryCache) :
        Exceeds(jaccardSimilarity(h.memoryCache[i].value.question, normalizedQ),
                SIMILARITY_THRESHOLD[1], SIMILARITY_THRESHOLD[2])}
\* C24: getCached runs the similarity scan only when the lookup by key gave no
\* hit, and the scan returns the first entry, in the iteration order of the
\* memory Map, that clears the threshold, whether or not a later one is closer
C24_FirstMatch ==
    match.looked =>
        LET h == match.before
            nq == trim(toLowerCase(match.q))
            hits == SimilarInMemory(h, nq)
        IN  /\ ExactInMemory(h, match.q) =>
                    /\ hook.last.ret.source = "memory"
                    /\ hook.last.ret.answer = MemoryData(h, MemoryKey(h, match.q)).answer
                    /\ hook.accessOrder = RefreshOrder(h.accessOrder, MemoryKey(h, match.q))
            /\ (~ExactInMemory(h, match.q) /\ hits # {}) =>
                    /\ hook.last.ret.source = "memory_similar"
                    /\ \E i \in hits :
                            /\ \A j \in hits : i <= j
                            /\ hook.last.ret.answer = h.memoryCache[i].value.data.answer
                            /\ hook.accessOrder = RefreshOrder(h.accessOrder, h.memoryCache[i].key)
            /\ hook.last.ret.source = "memory_similar" => ~ExactInMemory(h, match.q)
\* the scan has returned the first entry, of similarity 4/5, and the second
\* entry of the memory tier has the words of the query
C24_Witness ==
    /\ match.looked /\ hook.last.ret.source = "memory_similar"
    /\ Len(match.before.memoryCache) = 2
    /\ hook.last.ret.answer = MatchAnswer(1)
    /\ jaccardSimilarity(match.before.memoryCache[1].value.question, match.q).num = 4
    /\ jaccardSimilarity(match.before.memoryCache[1].value.question, match.q).den = 5
    /\ jaccardSimilarity(match.before.memoryCache[2].value.question, match.q).num = 4
    /\ jaccardSimilarity(match.before.memoryCache[2].value.question, match.q).den = 4

(***************************************************************************)
(* Atomicity of the cache operations.                                      *)
(***************************************************************************)
\* a call of getCached or setCached starts when no part of an earlier call is
\* still to run
C25_Step ==
    hook'.calls = hook.calls + 1 => (hook.timers = << >> /\ hook.pending = << >>)
\* C25: every cache operation, a setCached with its eviction and its storage
\* write and cleanup included, has made all of its state changes before any
\* other cache operation runs
C25_Atomic == [][C25_Step]_vars

(***************************************************************************)
(* Properties of a stream whose client has gone.                           *)
(***************************************************************************)
\* C26: once the client of POST /api/ai/answer-stream has disconnected, the
\* handler writes no further content chunk, and a live generation that comes to
\* its end still stores the accumulated answer
C26_StopsAndStores ==
    \A r \in Reqs :
        LET rq == reqs[r] IN
        (rev = "index_stream" /\ rq.gone) =>
            /\ \A i \in 1..Len(rq.events) : rq.events[i].type = "content" => i <= rq.cut
            /\ (rq.pc = "done" /\ ~rq.hit /\ ~rq.failed) =>
                    /\ rq.sets = 1
                    /\ MapHas(LiveView(responseCache), rq.key) =>
                            MapGet(LiveView(responseCache), rq.key).text \in
                                {reqs[x].acc : x \in Reqs}

(***************************************************************************)
(* A question against itself.                                              *)
(***************************************************************************)
\* a getCached(q) that is the first call after setCached(q, a), for a q that is
\* not blank, returns a
C27_Step ==
    (/\ hook.variant = "similarity"
     /\ hook.last.op = "setCached" /\ trim(hook.last.question) # << >>
     /\ Calls("getCached") /\ hook'.last.question = hook.last.question) =>
        (hook'.last.ret.found /\ hook'.last.ret.answer = hook.last.answer)
\* C27: in the similarity variant, for every non-empty question q and answer a,
\* a getCached(q) issued right after setCached(q, a) returns an entry whose
\* answer is a
C27_GetAfterSet == [][C27_Step]_vars

(***************************************************************************)
(* Job profiles and the server cache.                                      *)
(***************************************************************************)
\* the revisions whose handlers add the job profile of the session to the prompt
TailoredRevs == {"part_000", "index_answer", "index_stream"}
\* C28: an answer generated with the prompt of a job profile is never returned
\* from the cache to a request whose session has another job profile, or none
C28_ProfileIsolation ==
    \A r \in Reqs, x \in Reqs :
        (/\ rev \in TailoredRevs
         /\ r # x /\ reqs[r].hit /\ reqs[r].status = 200
         /\ reqs[x].sets > 0 /\ reqs[x].key = reqs[r].key
         /\ JobOfSession(reqs[x].sessionId) # 0) =>
            JobOfSession(reqs[r].sessionId) = JobOfSession(reqs[x].sessionId)

(***************************************************************************)
(* Properties of useParallelQueue.                                         *)
(***************************************************************************)
\* C29: the invocations of processFn that have started and not settled are never
\* more than maxConcurrent
C29_ConcurrencyBound == Cardinality(pq.inFlight) <= pq.maxConcurrent

\* s is the beginning of t
IsPrefix(s, t) == Len(s) <= Len(t) /\ SubSeq(t, 1, Len(s)) = s
\* the items passed to processFn are the first of the items pushed, in the order
\* of the pushes, each once
C30_InOrderOnce == IsPrefix(pq.started, pq.pushed)
\* C30: when clear() is not called and every invocation of processFn settles,
\* every item pushed onto the queue is passed to processFn, once, and the items
\* are started in the order of their pushes
C30_EveryItemStarted ==
    /\ [] C30_InOrderOnce
    /\ \A n \in 1..MaxAdds : (Len(pq.pushed) >= n) ~> (Len(pq.started) >= n)
\* with maxConcurrent = 1, a second item that had to wait in the queue has been
\* started after the first one settled
C30_Witness ==
    /\ pq.maxConcurrent = 1 /\ ~pq.cleared
    /\ Len(pq.started) = 2 /\ pq.started = pq.pushed
    /\ pq.stats.processed + pq.stats.errors = 1
    /\ Cardinality(pq.inFlight) = 1

====
